---------------------------- MODULE Spec2Model ----------------------------
(***************************************************************************)
(* NF-kB luciferase reporter assay, pylabrobot conversion.                 *)
(*                                                                         *)
(* Two scripts drive the same protocol:                                    *)
(*   ot2plr.py                              raw pick-up / aspirate /       *)
(*                                          dispense / drop calls ("low")  *)
(*   NF-kB Luciferase Reporter Assay.py     remove_liquid / add_liquid     *)
(*                                          helper calls ("high")          *)
(*                                                                         *)
(* The model follows run() statement by statement.  `trace` is the history *)
(* of the calls issued to the liquid handler and the backend; every call   *)
(* may be answered by a failure of the driver, which raises out of run().  *)
(* _tip_gen is modelled as the Python generator it is: a position in the   *)
(* nested loops plus the closed flag a generator gets once it has raised.  *)
(* _build_deck is one step: its assign calls bind labware to deck slots    *)
(* and it returns the dict of roles the run reads its labware from.        *)
(***************************************************************************)
EXTENDS Integers, Sequences, FiniteSets, TLC

VARIABLES
    variant,      \* which script's run() is executing: "low" or "high"
    TOTAL_COL,    \* the user-configurable column count of the script
    simArg,       \* how the caller passed `simulation`: "omitted", "true", "false"
    backendSim,   \* mode the backend was created in: "none", "sim", "real"
    racks,        \* deck["tip_racks"]: a list of racks, each a list of tips
    gen,          \* the generator object `tips` (also the allocator under test)
    cells_all,    \* the sample wells selected at line 72 / 65
    pc,           \* the statement run() is about to execute
    i,            \* position of the enclosing `for cell in cells_all` loop
    trace,        \* the calls issued so far, oldest first
    err,          \* the exception that left run(), "none" while there is none
    results,      \* outcomes of the next() calls made on a bare allocator
    slots,        \* lh.deck: the labware each deck slot holds, "free" if none
    deck          \* the dict _build_deck returned: labware by role

\* The deck and the dict of roles: written by _build_deck only.
deckVars == <<slots, deck>>

vars == <<variant, TOTAL_COL, simArg, backendSim, racks, gen, cells_all,
          pc, i, trace, err, results, slots, deck>>

---------------------------------------------------------------------------
(* Program constants *)

MEDIUM_VOL == 100
PBS_VOL == 50
LYSIS_VOL == 30
LUC_VOL == 100
TOTAL_COL_DEFAULT == 12
NumTipRacks == 4
TipsPerRack == 96
RowLen == 12

(* Bounds of the model *)

MaxRacks == 2
MaxRackSize == 3
MaxExtraCalls == 3

---------------------------------------------------------------------------
(* Labware *)

NoTip == <<0, 0>>
NoLoc == <<"none", 0>>

\* A tip is identified by its rack and its position in the rack.
MakeRack(r, n) == [p \in 1..n |-> <<r, p>>]

Inventory(sizes) == [r \in 1..Len(sizes) |-> MakeRack(r, sizes[r])]

SizeLists == UNION {[1..n -> 0..MaxRackSize] : n \in 0..MaxRacks}

SmallInventories == {Inventory(s) : s \in SizeLists}

\* Mutant of FullInventory: a rack iterates over its 8 rows, not its tips.
FullInventoryRows == Inventory([r \in 1..NumTipRacks |-> 8])

\* Four racks (slots 8, 11, 1, 4) of an opentrons_96_tiprack_300ul.
FullInventory == Inventory([r \in 1..NumTipRacks |-> TipsPerRack])

\* Inventories just below and at what a 12-column run consumes.
EdgeInventories == {Inventory(<<37>>), Inventory(<<20, 18>>)}

Inventories == SmallInventories \cup EdgeInventories \cup {FullInventory}

RECURSIVE SumSizes(_)
SumSizes(rk) == IF rk = <<>> THEN 0 ELSE Len(Head(rk)) + SumSizes(Tail(rk))

\* N: the number of tip positions the racks hold.
TotalTips(rk) == SumSizes(rk)

RECURSIVE Flatten(_)
Flatten(rk) == IF rk = <<>> THEN <<>> ELSE Head(rk) \o Flatten(Tail(rk))

\* Wells of the working plate's first row, A1..A12.
Well(c) == <<"working_plate", c>>
Row0 == [c \in 1..RowLen |-> Well(c)]

pbs == <<"reagent_res", 0>>
lysis == <<"reagent_res", 1>>
luciferase == <<"reagent_res", 2>>
waste == <<"waste_res", 0>>

Min(a, b) == IF a < b THEN a ELSE b

---------------------------------------------------------------------------
(* The deck: _build_deck and lh.deck.assign_child_resource *)

\* Slots of the four tip racks, in the order _build_deck assigns them.
tiprack_slots == <<8, 11, 1, 4>>

\* The slots _build_deck assigns: tip racks, working plate (6), reagent
\* reservoir (3), waste reservoir (9).
DeckSlots == {tiprack_slots[j] : j \in 1..NumTipRacks} \cup {6, 3, 9}

\* lh.deck of a new LiquidHandler: nothing assigned.
EmptyDeck == [s \in DeckSlots |-> "free"]

\* No dict of roles yet.
NoDeck ==
    [tip_racks |-> <<>>, working_plate |-> "none", reagent_res |-> "none",
     waste_res |-> "none"]

\* The assign calls _build_deck makes, in order.  tiprack_i is created once,
\* before the loop over the tip-rack slots, so the four calls of line 31 hand
\* over the same rack object.
BuildCalls ==
    [j \in 1..NumTipRacks |-> [labware |-> "tiprack_i", slot |-> tiprack_slots[j]]]
    \o << [labware |-> "working_plate", slot |-> 6],
          [labware |-> "reagent_stock", slot |-> 3],
          [labware |-> "waste_res", slot |-> 9] >>

\* lh.deck.assign_child_resource(labware, slot): binds the labware to the
\* slot; refuses an occupied slot, and refuses a labware that is already on
\* the deck unless the deck is lenient about it.
assign_child_resource(reg, labware, slot, lenient) ==
    IF reg[slot] # "free"
    THEN [err |-> "SlotConflictError", slots |-> reg]
    ELSE IF ~lenient /\ \E s \in DeckSlots : reg[s] = labware
    THEN [err |-> "DuplicateLabwareError", slots |-> reg]
    ELSE [err |-> "none", slots |-> [reg EXCEPT ![slot] = labware]]

\* The assign calls one after the other; the first that raises ends the build.
RECURSIVE AssignAll(_, _, _)
AssignAll(reg, calls, lenient) ==
    IF calls = <<>>
    THEN [err |-> "none", slots |-> reg]
    ELSE LET r == assign_child_resource(reg, Head(calls).labware,
                                        Head(calls).slot, lenient)
         IN  IF r.err = "none"
             THEN AssignAll(r.slots, Tail(calls), lenient)
             ELSE r

\* The dict _build_deck returns.  "tip_racks" is the list line 31 built from
\* what the four assign calls returned, the rack each of them was handed.
BuiltDeck ==
    [tip_racks |-> [j \in 1..NumTipRacks |-> "tiprack_i"],
     working_plate |-> "working_plate",
     reagent_res |-> "reagent_stock",
     waste_res |-> "waste_res"]

\* Python's seq[:n] for n >= 0: the first n items, or all of them if fewer.
SliceTo(s, n) == SubSeq(s, 1, Min(n, Len(s)))

---------------------------------------------------------------------------
(* _tip_gen *)

GenInit == [rack |-> 1, pos |-> 0, closed |-> FALSE]

\* Mutant of Advance: the end of a rack is taken for the end of the tips.
AdvanceOneRack(rk, r, p) ==
    IF r > Len(rk) \/ p >= Len(rk[r])
    THEN [kind |-> "RuntimeError", tip |-> NoTip,
          gen |-> [rack |-> r, pos |-> p, closed |-> TRUE]]
    ELSE [kind |-> "tip", tip |-> rk[r][p + 1],
          gen |-> [rack |-> r, pos |-> p + 1, closed |-> FALSE]]

\* Resume the nested loops at rack r, after p tips of that rack: yield the
\* next tip, or fall out of the loops and raise.
RECURSIVE Advance(_, _, _)
Advance(rk, r, p) ==
    IF r > Len(rk)
    THEN [kind |-> "RuntimeError", tip |-> NoTip,
          gen |-> [rack |-> r, pos |-> p, closed |-> TRUE]]
    ELSE IF p < Len(rk[r])
         THEN [kind |-> "tip", tip |-> rk[r][p + 1],
               gen |-> [rack |-> r, pos |-> p + 1, closed |-> FALSE]]
         ELSE Advance(rk, r + 1, 0)

\* next(tips): a generator that has raised is finished, and next() on a
\* finished generator raises StopIteration.
tip_gen(rk, g) ==
    IF g.closed
    THEN [kind |-> "StopIteration", tip |-> NoTip, gen |-> g]
    ELSE Advance(rk, g.rack, g.pos)

---------------------------------------------------------------------------
(* run(): calls, returns and raises *)

ColCounts == {1, 2, 3, 12, 13}
SimArgs == {"omitted", "true", "false"}

\* The default of run()'s `simulation` parameter in each script.
DefaultSimulationLow == FALSE
DefaultSimulationHigh == TRUE

Simulation(v, arg) ==
    IF arg = "omitted"
    THEN (IF v = "low" THEN DefaultSimulationLow ELSE DefaultSimulationHigh)
    ELSE arg = "true"

\* The call returned: run() goes on with its next statement.
Return(next) == pc' = next /\ err' = err

\* Mutant of Raise: the exception is caught and the statement tried again.
RaiseAndRetry(e) == pc' = pc /\ err' = e

\* The call raised: run() has no try/except, the exception leaves run().
Raise(e) == pc' = "failed" /\ err' = e

\* One call to the liquid handler or the backend.  The driver answers each
\* call with success or failure; a failure raises.
Issue(op, s, loc, vol, n, tip, next) ==
    \E ok \in BOOLEAN :
        /\ trace' = Append(trace, [op |-> op, step |-> s, col |-> i, loc |-> loc,
                                   vol |-> vol, n |-> n, tip |-> tip, ok |-> ok])
        /\ IF ok THEN Return(next) ELSE Raise("HardwareError")

\* Mutant of PickUp: a new generator is made for every pick-up.
PickUpFresh(s, next) ==
    LET r == tip_gen(racks, GenInit) IN
    /\ gen' = gen
    /\ IF r.kind = "tip"
       THEN Issue("pick_up_tips", s, NoLoc, 0, 0, r.tip, next)
       ELSE Raise(r.kind) /\ trace' = trace

\* lh.pick_up_tips(next(tips)): the argument is evaluated first, and an
\* exhausted generator raises before pick_up_tips is called.
PickUp(s, next) ==
    LET r == tip_gen(racks, gen) IN
    /\ gen' = r.gen
    /\ IF r.kind = "tip"
       THEN Issue("pick_up_tips", s, NoLoc, 0, 0, r.tip, next)
       ELSE Raise(r.kind) /\ trace' = trace

\* A statement that issues one call and touches nothing else.
Stmt(l, op, s, loc, vol, n, next) ==
    /\ pc = l
    /\ Issue(op, s, loc, vol, n, NoTip, next)
    /\ UNCHANGED <<variant, TOTAL_COL, simArg, backendSim, racks, gen,
                   cells_all, i, results, deckVars>>

\* A statement lh.pick_up_tips(next(tips)).
TipStmt(l, s, next) ==
    /\ pc = l
    /\ PickUp(s, next)
    /\ UNCHANGED <<variant, TOTAL_COL, simArg, backendSim, racks,
                   cells_all, i, results, deckVars>>

\* The cell the enclosing loop is at.
cell == cells_all[i]

\* `for cell in cells_all:` - take the next cell, or leave the loop.
ForCell(l, body, exit) ==
    /\ pc = l
    /\ IF i < Len(cells_all)
       THEN pc' = body /\ i' = i + 1
       ELSE pc' = exit /\ i' = 0
    /\ UNCHANGED <<variant, TOTAL_COL, simArg, backendSim, racks, gen,
                   cells_all, trace, err, results, deckVars>>

---------------------------------------------------------------------------
(* run(): construction, common to both scripts *)

\* backend = MyBackend(simulation=simulation); lh = LiquidHandler(backend).
\* MyBackend is not defined in either script: the name resolves only if the
\* embedding binds it, otherwise the call raises NameError.
CreateBackend ==
    /\ pc = "run"
    /\ \E bound \in BOOLEAN :
          IF bound
          THEN /\ backendSim' = IF Simulation(variant, simArg) THEN "sim" ELSE "real"
               /\ Return("build")
          ELSE /\ backendSim' = backendSim
               /\ Raise("NameError")
    /\ UNCHANGED <<variant, TOTAL_COL, simArg, racks, gen, cells_all, i,
                   trace, results, deckVars>>

\* deck = _build_deck(lh); tips = _tip_gen(deck["tip_racks"]).
\* _build_deck reads tiprack, reagent_stock and waste_res before it assigns
\* them, so it can raise before any assign; it hands one rack object to four
\* slots, which the deck either refuses at the second slot or accepts.  When
\* it returns, the tips of deck["tip_racks"] are the inventory the run draws
\* from.
BuildDeck ==
    /\ pc = "build"
    /\ \/ /\ Raise("NameError")
          /\ UNCHANGED <<racks, gen, deckVars>>
       \/ \E lenient \in BOOLEAN :
             LET r == AssignAll(slots, BuildCalls, lenient) IN
             /\ slots' = r.slots
             /\ IF r.err = "none"
                THEN \E inv \in Inventories :
                        /\ racks' = inv
                        /\ gen' = GenInit
                        /\ deck' = BuiltDeck
                        /\ Return("aliases")
                ELSE /\ Raise(r.err)
                     /\ UNCHANGED <<racks, gen, deck>>
    /\ UNCHANGED <<variant, TOTAL_COL, simArg, backendSim, cells_all, i,
                   trace, results>>

\* cells_all = deck["working_plate"].rows()[0][:TOTAL_COL]
Aliases ==
    /\ pc = "aliases"
    /\ cells_all' = SliceTo(Row0, TOTAL_COL)
    /\ Return("setup")
    /\ UNCHANGED <<variant, TOTAL_COL, simArg, backendSim, racks, gen, i,
                   trace, results, deckVars>>

\* lh.setup()
Setup ==
    Stmt("setup", "setup", 0, NoLoc, 0, 0,
         IF variant = "low" THEN "for77" ELSE "H70")

---------------------------------------------------------------------------
(* ot2plr.py run(): the five steps *)

\* 1. Remove spent medium
RemoveMedium_for == ForCell("for77", "L78", "L86")
RemoveMedium_pick_up_tips == TipStmt("L78", 1, "L79")
RemoveMedium_aspirate ==
    Stmt("L79", "aspirate", 1, cell, (MEDIUM_VOL * 12) \div 10, 0, "L81")
RemoveMedium_dispense ==
    Stmt("L81", "dispense", 1, waste, (MEDIUM_VOL * 12) \div 10, 0, "L83")
RemoveMedium_drop_tips == Stmt("L83", "drop_tips", 1, NoLoc, 0, 0, "for77")

\* 2. PBS wash (add)
WashAdd_pick_up_tips == TipStmt("L86", 2, "for87")
WashAdd_for == ForCell("for87", "L88", "L92")
WashAdd_aspirate == Stmt("L88", "aspirate", 2, pbs, PBS_VOL, 0, "L89")
WashAdd_air_gap == Stmt("L89", "air_gap", 2, NoLoc, 20, 0, "L90")
\* Mutant of WashAdd_dispense: the air gap is left in the tip.
WashAdd_dispense_liquid_only ==
    Stmt("L90", "dispense", 2, cell, PBS_VOL, 0, "for87")
WashAdd_dispense == Stmt("L90", "dispense", 2, cell, PBS_VOL + 20, 0, "for87")
\* Mutant of WashAdd_drop_tips: the wash is not removed.
WashAdd_drop_tips_skip == Stmt("L92", "drop_tips", 2, NoLoc, 0, 0, "L104")
WashAdd_drop_tips == Stmt("L92", "drop_tips", 2, NoLoc, 0, 0, "for95")

\* 3. PBS wash (remove)
\* Mutant of WashRemove_for: the loop body starts at the aspirate.
WashRemove_for_no_pick_up == ForCell("for95", "L97", "L104")
WashRemove_for == ForCell("for95", "L96", "L104")
WashRemove_pick_up_tips == TipStmt("L96", 3, "L97")
WashRemove_aspirate ==
    Stmt("L97", "aspirate", 3, cell, (PBS_VOL * 15) \div 10, 0, "L99")
WashRemove_dispense ==
    Stmt("L99", "dispense", 3, waste, (PBS_VOL * 15) \div 10, 0, "L101")
\* Mutant of WashRemove_drop_tips: the used tip stays on the pipette.
WashRemove_drop_tips_forgotten ==
    /\ pc = "L101"
    /\ pc' = "for95"
    /\ UNCHANGED <<variant, TOTAL_COL, simArg, backendSim, racks, gen,
                   cells_all, i, trace, err, results, deckVars>>
WashRemove_drop_tips == Stmt("L101", "drop_tips", 3, NoLoc, 0, 0, "for95")

\* 4. Add lysis buffer
LysisAdd_pick_up_tips == TipStmt("L104", 4, "for105")
LysisAdd_for == ForCell("for105", "L106", "L111")
LysisAdd_aspirate == Stmt("L106", "aspirate", 4, lysis, LYSIS_VOL, 0, "L107")
LysisAdd_delay_before == Stmt("L107", "delay", 4, NoLoc, 0, 2, "L108")
LysisAdd_dispense == Stmt("L108", "dispense", 4, cell, LYSIS_VOL, 0, "L110")
\* Mutant of LysisAdd_delay_after: the pick-up is inside the loop.
LysisAdd_delay_after_repick == Stmt("L110", "delay", 4, NoLoc, 0, 2, "L104")
LysisAdd_delay_after == Stmt("L110", "delay", 4, NoLoc, 0, 2, "for105")
LysisAdd_drop_tips == Stmt("L111", "drop_tips", 4, NoLoc, 0, 0, "L112")
LysisAdd_incubate == Stmt("L112", "delay", 4, NoLoc, 0, 3 * 60, "for115")

\* 5. Add luciferase reagent
ReagentAdd_for == ForCell("for115", "L116", "L125")
ReagentAdd_pick_up_tips == TipStmt("L116", 5, "L117")
ReagentAdd_aspirate == Stmt("L117", "aspirate", 5, luciferase, LUC_VOL, 0, "L118")
ReagentAdd_delay == Stmt("L118", "delay", 5, NoLoc, 0, 2, "L119")
ReagentAdd_dispense == Stmt("L119", "dispense", 5, cell, LUC_VOL, 0, "L121")
\* Mutant of ReagentAdd_mix: the mix is done in the reagent channel.
ReagentAdd_mix_in_source == Stmt("L121", "mix", 5, luciferase, 75, 3, "L123")
ReagentAdd_mix == Stmt("L121", "mix", 5, cell, 75, 3, "L123")
ReagentAdd_drop_tips == Stmt("L123", "drop_tips", 5, NoLoc, 0, 0, "for115")

\* lh.finish()
Finish == Stmt("L125", "finish", 0, NoLoc, 0, 0, "done")

---------------------------------------------------------------------------
(* NF-kB Luciferase Reporter Assay.py run(): the five helper calls.        *)
(* vol is the volume of one entry of `vols`, n the number of entries, loc  *)
(* the reagent source, locs the wells handed over under the keyword kw,    *)
(* delays the `delays` argument, air the blow-out air volume.              *)

\* A statement `await lh.remove_liquid(...)` or `await lh.add_liquid(...)`.
HelperCall(l, op, s, loc, vol, n, locs, kw, delays, air, next) ==
    /\ pc = l
    /\ \E ok \in BOOLEAN :
          /\ trace' = Append(trace,
                [op |-> op, step |-> s, col |-> i, loc |-> loc, vol |-> vol,
                 n |-> n, tip |-> NoTip, ok |-> ok, locs |-> locs, kw |-> kw,
                 delays |-> delays, air |-> air])
          /\ IF ok THEN Return(next) ELSE Raise("HardwareError")
    /\ UNCHANGED <<variant, TOTAL_COL, simArg, backendSim, racks, gen,
                   cells_all, i, results, deckVars>>

High_remove_medium ==
    HelperCall("H70", "remove_liquid", 1, NoLoc, MEDIUM_VOL, 12,
               cells_all, "sources", <<>>, 0, "H80")
High_wash_add ==
    HelperCall("H80", "add_liquid", 2, pbs, PBS_VOL, 12,
               cells_all, "targets", <<1>>, 20, "H93")
High_wash_remove ==
    HelperCall("H93", "remove_liquid", 3, NoLoc, (PBS_VOL * 15) \div 10, 12,
               cells_all, "sources", <<>>, 0, "H103")
\* the sample wells are passed as `sources`; the call names no targets
High_lysis_add ==
    HelperCall("H103", "add_liquid", 4, lysis, LYSIS_VOL, 12,
               cells_all, "sources", <<2, 2>>, 0, "H113")
\* the last statement of run(): the coroutine returns after it
High_reagent_add ==
    HelperCall("H113", "add_liquid", 5, luciferase, LUC_VOL, 12,
               cells_all, "targets", <<1>>, 0, "done")

---------------------------------------------------------------------------
(* The run *)

Init ==
    /\ variant \in {"low", "high"}
    /\ TOTAL_COL \in ColCounts
    /\ simArg \in SimArgs
    /\ backendSim = "none"
    /\ racks = <<>>
    /\ gen = GenInit
    /\ cells_all = <<>>
    /\ pc = "run"
    /\ i = 0
    /\ trace = <<>>
    /\ err = "none"
    /\ results = <<>>
    /\ slots = EmptyDeck
    /\ deck = NoDeck

Next ==
    \/ CreateBackend
    \/ BuildDeck
    \/ Aliases
    \/ Setup
    \/ RemoveMedium_for
    \/ RemoveMedium_pick_up_tips
    \/ RemoveMedium_aspirate
    \/ RemoveMedium_dispense
    \/ RemoveMedium_drop_tips
    \/ WashAdd_pick_up_tips
    \/ WashAdd_for
    \/ WashAdd_aspirate
    \/ WashAdd_air_gap
    \/ WashAdd_dispense
    \/ WashAdd_drop_tips
    \/ WashRemove_for
    \/ WashRemove_pick_up_tips
    \/ WashRemove_aspirate
    \/ WashRemove_dispense
    \/ WashRemove_drop_tips
    \/ LysisAdd_pick_up_tips
    \/ LysisAdd_for
    \/ LysisAdd_aspirate
    \/ LysisAdd_delay_before
    \/ LysisAdd_dispense
    \/ LysisAdd_delay_after
    \/ LysisAdd_drop_tips
    \/ LysisAdd_incubate
    \/ ReagentAdd_for
    \/ ReagentAdd_pick_up_tips
    \/ ReagentAdd_aspirate
    \/ ReagentAdd_delay
    \/ ReagentAdd_dispense
    \/ ReagentAdd_mix
    \/ ReagentAdd_drop_tips
    \/ Finish
    \/ High_remove_medium
    \/ High_wash_add
    \/ High_wash_remove
    \/ High_lysis_add
    \/ High_reagent_add

Spec == Init /\ [][Next]_vars

\* run() is one sequential thread: a statement that can execute does.
FairSpec == Spec /\ WF_vars(Next)

---------------------------------------------------------------------------
(* The allocator on its own: next() called on a fresh generator, past its  *)
(* end.                                                                    *)

InitAlloc ==
    /\ variant = "low"
    /\ TOTAL_COL = TOTAL_COL_DEFAULT
    /\ simArg = "true"
    /\ backendSim = "none"
    /\ racks \in SmallInventories
    /\ gen = GenInit
    /\ cells_all = <<>>
    /\ pc = "alloc"
    /\ i = 0
    /\ trace = <<>>
    /\ err = "none"
    /\ results = <<>>
    /\ slots = EmptyDeck
    /\ deck = NoDeck

\* next(tips), with whatever it returns or raises recorded.
CallNext ==
    /\ pc = "alloc"
    /\ Len(results) < TotalTips(racks) + MaxExtraCalls
    /\ LET r == tip_gen(racks, gen) IN
          /\ gen' = r.gen
          /\ results' = Append(results, [kind |-> r.kind, tip |-> r.tip])
    /\ UNCHANGED <<variant, TOTAL_COL, simArg, backendSim, racks, cells_all,
                   pc, i, trace, err, deckVars>>

NextAlloc == CallNext

SpecAlloc == InitAlloc /\ [][NextAlloc]_vars

---------------------------------------------------------------------------
(* The two scripts side by side: ot2plr.py's run() first, then the helper  *)
(* script's run() with the same configuration on a new deck, the calls of  *)
(* both recorded in the one history.                                       *)

InitPair == Init /\ variant = "low"

\* ot2plr.py's run() has returned: the helper script's run() is called.
SecondScript ==
    /\ variant = "low"
    /\ pc = "done"
    /\ variant' = "high"
    /\ pc' = "run"
    /\ backendSim' = "none"
    /\ racks' = <<>>
    /\ gen' = GenInit
    /\ cells_all' = <<>>
    /\ slots' = EmptyDeck
    /\ deck' = NoDeck
    /\ UNCHANGED <<TOTAL_COL, simArg, i, trace, err, results>>

NextPair == Next \/ SecondScript

SpecPair == InitPair /\ [][NextPair]_vars

---------------------------------------------------------------------------
(* Reading the history *)

IsPickUp(r) == r.op = "pick_up_tips"
IsDrop(r) == r.op = "drop_tips"

\* The pick_up_tips calls issued so far, oldest first.
Pickups == SelectSeq(trace, IsPickUp)

\* The calls a step has issued so far.
StepOps(s) == SelectSeq(trace, LAMBDA r : r.step = s)

Count(seq, Test(_)) == Len(SelectSeq(seq, Test))

\* Step s is over once a call of a later step, or finish(), has been issued
\* or is the next statement.
StepOver(s) ==
    \/ pc = "done"
    \/ pc = "L125"
    \/ \E k \in 1..Len(trace) : trace[k].step > s

\* Tips a complete low-level run draws for k sample columns: one per column
\* in steps 1, 3 and 5, one each for steps 2 and 4.
TipsNeeded(k) == 3 * k + 2

Last(seq) == seq[Len(seq)]

---------------------------------------------------------------------------
(* Claims *)

\* C1: for racks holding N tip positions, the first N calls to next() return
\* the N positions, pairwise distinct, in rack order and then position
\* order, and call N+1 and every later call fail with the tip-exhaustion
\* condition (RuntimeError "Out of tips!").
C1_NextInOrderThenExhausted ==
    LET N == TotalTips(racks)
        order == Flatten(racks)
    IN  /\ \A a, b \in 1..N : a # b => order[a] # order[b]
        /\ \A k \in 1..Len(results) :
              IF k <= N
              THEN results[k] = [kind |-> "tip", tip |-> order[k]]
              ELSE results[k] = [kind |-> "RuntimeError", tip |-> NoTip]

\* What the generator does: calls 1..N and call N+1 as stated above; every
\* call after that raises StopIteration.
AllocatorBehaviour ==
    LET N == TotalTips(racks)
        order == Flatten(racks)
    IN  \A k \in 1..Len(results) :
           results[k] = IF k <= N THEN [kind |-> "tip", tip |-> order[k]]
                        ELSE IF k = N + 1
                             THEN [kind |-> "RuntimeError", tip |-> NoTip]
                             ELSE [kind |-> "StopIteration", tip |-> NoTip]

\* C2: the tips handed to pick_up_tips during one run are pairwise distinct,
\* so no tip, released or not, is picked up a second time.
C2_TipsPickedOnce ==
    LET picked == Pickups IN
    \A a, b \in 1..Len(picked) :
        a # b => picked[a].tip # picked[b].tip

C2_Witness ==
    /\ variant = "low"
    /\ pc = "done"
    /\ Len(cells_all) = 12
    /\ Len(Pickups) = TipsNeeded(12)

\* C3: with T tips in the inventory, exhaustion is raised exactly at
\* acquisition T+1 (the T before it were handed out, none is handed out after
\* it), a run that needs more than T never completes, and with T = 1 the
\* failure is at the second column of the remove-medium step: column A1 was
\* picked up for, aspirated, dispensed and dropped, nothing addresses A2.
C3_ExhaustedAtTPlusOne ==
    (variant = "low" /\ pc \notin {"run", "build"}) =>
        LET T == TotalTips(racks) IN
        /\ Len(Pickups) <= T
        /\ err # "StopIteration"
        /\ err = "RuntimeError" =>
              /\ Len(Pickups) = T
              /\ pc = "failed"
              /\ \A k \in 1..Len(trace) : trace[k].ok
        /\ pc \in {"done", "L125"} => TipsNeeded(Len(cells_all)) <= T
        /\ (T = 1 /\ Len(cells_all) >= 2 /\ err = "RuntimeError") =>
              /\ i = 2
              /\ [k \in 1..Len(trace) |-> trace[k].op] =
                    <<"setup", "pick_up_tips", "aspirate", "dispense", "drop_tips">>
              /\ trace[2].tip = Flatten(racks)[1]
              /\ trace[3].loc = Well(1)
              /\ trace[4].loc = waste
              /\ \A k \in 2..5 : trace[k].step = 1 /\ trace[k].col = 1

C3_Witness ==
    /\ variant = "low"
    /\ TotalTips(racks) = 1
    /\ Len(cells_all) >= 2
    /\ err = "RuntimeError"
    /\ Len(trace) = 5

\* A failed call is the last call issued, and the run is failed with it.
C4_Aborted ==
    /\ (err # "none") <=> (pc = "failed")
    /\ \A k \in 1..Len(trace) :
          ~trace[k].ok => /\ k = Len(trace)
                          /\ pc = "failed"
                          /\ err = "HardwareError"
    /\ pc = "failed" =>
          \A k \in 1..Len(trace) : trace[k].op = "finish" => ~trace[k].ok

\* C4: a failing call (tip exhaustion, or the driver failing a primitive) is
\* the last call of the run: the run is then failed with that error, finish()
\* is not called after it, and nothing is issued, retried or changed
\* afterwards.
C4_AbortOnFailure ==
    /\ []C4_Aborted
    /\ [][pc = "failed" => (pc' = "failed" /\ err' = err /\ trace' = trace)]_vars

C4_Witness ==
    /\ variant = "low"
    /\ pc = "failed"
    /\ err = "HardwareError"
    /\ Len(trace) > 1
    /\ Last(trace).step = 2
    /\ Last(trace).op = "dispense"

RemovePattern == <<"pick_up_tips", "aspirate", "dispense", "drop_tips">>

\* C5: the medium-removal and the wash-removal step (steps 1 and 3) issue,
\* for each sample column in turn, pick_up_tips, aspirate from that column,
\* dispense to waste, drop_tips; a step over k columns picks up k tips.
C5_OneTipPerColumn ==
    variant = "low" =>
        \A s \in {1, 3} :
            LET ops == StepOps(s) IN
            /\ \A k \in 1..Len(ops) :
                  LET c == ((k - 1) \div 4) + 1
                      ph == ((k - 1) % 4) + 1
                  IN  /\ ops[k].op = RemovePattern[ph]
                      /\ ops[k].col = c
                      /\ ph = 2 => ops[k].loc = Well(c)
                      /\ ph = 3 => ops[k].loc = waste
            /\ StepOver(s) =>
                  /\ Len(ops) = 4 * Len(cells_all)
                  /\ Count(ops, IsPickUp) = Len(cells_all)
                  /\ Count(ops, IsDrop) = Len(cells_all)

C5_Witness ==
    /\ variant = "low"
    /\ pc = "L104"
    /\ Len(cells_all) = 12
    /\ Count(StepOps(1), IsPickUp) = 12
    /\ Count(StepOps(3), IsPickUp) = 12

\* One tip for the whole step: the step's first call is its only pick-up,
\* and its only drop comes after the last liquid call of the last column.
SharesOneTip(s) ==
    LET ops == StepOps(s) IN
    /\ ops # <<>> => IsPickUp(ops[1])
    /\ Count(ops, IsPickUp) <= 1
    /\ Count(ops, IsDrop) <= 1
    /\ \A k \in 1..Len(ops) :
          IsDrop(ops[k]) =>
              /\ \A j \in 1..Len(ops) :
                    ops[j].op \in {"aspirate", "air_gap", "dispense", "mix"} => j < k
              /\ Count(ops, LAMBDA r : r.op = "dispense") = Len(cells_all)
    /\ StepOver(s) => Count(ops, IsPickUp) = 1 /\ Count(ops, IsDrop) = 1

\* C6 as claimed: wash-add, lysis-add and reagent-add (steps 2, 4, 5) each
\* share one tip across all their columns.
C6_CleanStepsShareOneTip ==
    variant = "low" => \A s \in {2, 4, 5} : SharesOneTip(s)

ReagentPattern ==
    <<"pick_up_tips", "aspirate", "delay", "dispense", "mix", "drop_tips">>

\* C6 as amended: wash-add and lysis-add each share one tip across all their
\* columns; reagent-add, which mixes in the well, issues for each column in
\* turn pick_up_tips, aspirate, delay, dispense, mix, drop_tips and so picks
\* up one tip per column.
C6_SharedTipExceptReagentAdd ==
    variant = "low" =>
        /\ \A s \in {2, 4} : SharesOneTip(s)
        /\ LET ops == StepOps(5) IN
           /\ \A k \in 1..Len(ops) :
                 LET c == ((k - 1) \div 6) + 1
                     ph == ((k - 1) % 6) + 1
                 IN  /\ ops[k].op = ReagentPattern[ph]
                     /\ ops[k].col = c
                     /\ ph \in {4, 5} => ops[k].loc = Well(c)
           /\ StepOver(5) =>
                 /\ Count(ops, IsPickUp) = Len(cells_all)
                 /\ Count(ops, IsDrop) = Len(cells_all)

C6_Witness ==
    /\ variant = "low"
    /\ pc = "done"
    /\ Len(cells_all) = 12
    /\ Count(StepOps(2), IsPickUp) = 1
    /\ Count(StepOps(4), IsPickUp) = 1
    /\ Count(StepOps(5), IsPickUp) = 12

\* The columns of the working plate a step has addressed, in call order.
PlateCols(s) ==
    LET ops == SelectSeq(trace, LAMBDA r : r.step = s /\ r.loc[1] = "working_plate")
    IN  [j \in 1..Len(ops) |-> ops[j].loc[2]]

\* A1, A2, ..., Ak, each column in one unbroken visit.
InColumnOrder(cols, k) ==
    /\ Len(cols) >= k
    /\ k > 0 => cols[1] = 1 /\ cols[Len(cols)] = k
    /\ \A j \in 1..Len(cols) - 1 : cols[j + 1] \in {cols[j], cols[j] + 1}

\* C7: the steps run in the order 1..5, none skipped or repeated; a step has
\* addressed every sample column before the next step issues its first call;
\* within a step the columns are addressed in the order A1, A2, ..., each in
\* one visit.
C7_StepsAndColumnsInOrder ==
    /\ \A k \in 1..Len(trace) - 1 :
          LET a == trace[k]
              b == trace[k + 1]
          IN  /\ b.op # "finish" => a.step <= b.step /\ b.step <= a.step + 1
              /\ b.op = "finish" => a.step = 5
              /\ (variant = "low" /\ a.step >= 1 /\ (a.step # b.step)) =>
                    InColumnOrder(PlateCols(a.step), Len(cells_all))
              /\ (variant = "low" /\ a.step = b.step) =>
                    \/ b.col = a.col
                    \/ b.col = a.col + 1
                    \/ b.col = 0 /\ a.col = Len(cells_all)
              /\ (variant = "low" /\ b.loc[1] = "working_plate") =>
                    b.loc = Well(b.col)
    /\ trace # <<>> => trace[1].op = "setup"
    /\ pc = "done" => \A s \in 1..5 : \E k \in 1..Len(trace) : trace[k].step = s

C7_Witness ==
    /\ variant = "low"
    /\ pc = "done"
    /\ Len(cells_all) = 12
    /\ \A s \in 1..5 : PlateCols(s) # <<>> /\ InColumnOrder(PlateCols(s), 12)

\* The low-level run on four racks of 96 tips, default configuration.
FullRun ==
    /\ variant = "low"
    /\ racks = FullInventory
    /\ TOTAL_COL = TOTAL_COL_DEFAULT

\* The run returned: 38 tips drawn, every step over A1..A12, finish() last.
Completed ==
    /\ pc = "done"
    /\ Last(trace).op = "finish"
    /\ Len(Pickups) = TipsNeeded(TOTAL_COL_DEFAULT)
    /\ \A s \in 1..5 : InColumnOrder(PlateCols(s), TOTAL_COL_DEFAULT)

C9_SetupFirstFinishLast ==
    pc = "done" =>
        /\ trace[1].op = "setup"
        /\ Last(trace).op = "finish"
        /\ Count(trace, LAMBDA r : r.op = "finish") = 1
        /\ Count(trace, LAMBDA r : r.op = "setup") = 1

\* C10: run() called without a simulation argument creates the backend in
\* simulation mode; the backend is real only if the caller passed
\* simulation = False.
C10_SimulationByDefault ==
    /\ (simArg = "omitted" /\ backendSim # "none") => backendSim = "sim"
    /\ backendSim = "real" => simArg = "false"

\* The medium removal of ot2plr.py, call by call: an aspirate of step 1 draws
\* 1.2 x MEDIUM_VOL from the column the loop is at, directly after the
\* column's pick-up; the next call is the dispense of the same volume to
\* waste, and the call after that the drop; the step issues no air gap, mix
\* or delay.
RemoveMediumLowLevel ==
    variant = "low" =>
        \A k \in 1..Len(trace) :
            LET r == trace[k] IN
            r.step = 1 =>
                /\ r.op \in {"pick_up_tips", "aspirate", "dispense", "drop_tips"}
                /\ r.op = "aspirate" =>
                      /\ 10 * r.vol = 12 * MEDIUM_VOL
                      /\ r.loc = Well(r.col)
                      /\ IsPickUp(trace[k - 1]) /\ trace[k - 1].col = r.col
                      /\ k < Len(trace) =>
                            /\ trace[k + 1].op = "dispense"
                            /\ trace[k + 1].loc = waste
                            /\ trace[k + 1].vol = r.vol
                            /\ trace[k + 1].col = r.col
                /\ r.op = "dispense" =>
                      /\ trace[k - 1].op = "aspirate"
                      /\ k < Len(trace) =>
                            IsDrop(trace[k + 1]) /\ trace[k + 1].col = r.col

\* C11: the medium removal moves 1.2 x the medium volume out of every sample
\* column: in ot2plr.py one aspirate of that volume from the column directly
\* followed by one dispense of the same volume to waste, between the column's
\* pick-up and drop, with no air gap, mix or delay; in the helper script the
\* volume handed to remove_liquid for each column is that same volume.
C11_RemoveMediumVolume ==
    /\ RemoveMediumLowLevel
    /\ variant = "high" =>
          \A k \in 1..Len(trace) :
              (trace[k].step = 1 /\ trace[k].op = "remove_liquid") =>
                  10 * trace[k].vol = 12 * MEDIUM_VOL

\* C12: the wash-add step of ot2plr.py issues, for each sample column in
\* turn, aspirate(PBS source, wash volume), air_gap(20), dispense(that
\* column, wash volume + 20), one directly after the other; the dispensed
\* volume is the aspirated volume plus the air gap, and the step issues
\* exactly one such triple per column.
C12_WashAddTriple ==
    variant = "low" =>
        /\ \A k \in 1..Len(trace) :
              LET r == trace[k] IN
              r.step = 2 =>
                  /\ r.op \in {"pick_up_tips", "aspirate", "air_gap",
                               "dispense", "drop_tips"}
                  /\ r.op = "aspirate" =>
                        /\ r.loc = pbs /\ r.vol = PBS_VOL
                        /\ k < Len(trace) => trace[k + 1].op = "air_gap"
                  /\ r.op = "air_gap" =>
                        /\ r.vol = 20
                        /\ trace[k - 1].op = "aspirate"
                        /\ k < Len(trace) => trace[k + 1].op = "dispense"
                  /\ r.op = "dispense" =>
                        /\ trace[k - 1].op = "air_gap"
                        /\ trace[k - 2].op = "aspirate"
                        /\ r.loc = Well(r.col)
                        /\ r.vol = trace[k - 2].vol + trace[k - 1].vol
        /\ StepOver(2) =>
              \A c \in 1..Len(cells_all) :
                  \A o \in {"aspirate", "air_gap", "dispense"} :
                      Count(StepOps(2), LAMBDA r : r.op = o /\ r.col = c) = 1

C12_Witness ==
    /\ variant = "low"
    /\ pc = "for95"
    /\ Len(cells_all) = 12
    /\ Count(StepOps(2), LAMBDA r : r.op = "dispense" /\ r.vol = PBS_VOL + 20) = 12

\* The 3-minute incubation: a whole-plate delay of 180 s issued after the
\* last lysis dispense.
IsIncubation(r) == r.op = "delay" /\ r.n = 3 * 60

\* The lysis step of ot2plr.py, call by call: every lysis aspirate is
\* followed by a 2 s delay and the column's dispense, every lysis dispense by
\* a 2 s delay; the incubation is issued once, after the dispense to the last
\* column.
LysisDelaysLowLevel ==
    variant = "low" =>
        /\ \A k \in 1..Len(trace) :
              LET r == trace[k] IN
              /\ (r.step = 4 /\ r.op = "aspirate" /\ k < Len(trace)) =>
                    /\ trace[k + 1].op = "delay" /\ trace[k + 1].n = 2
                    /\ k + 1 < Len(trace) =>
                          trace[k + 2].op = "dispense" /\ trace[k + 2].loc = Well(r.col)
              /\ (r.step = 4 /\ r.op = "dispense") =>
                    /\ trace[k - 1].op = "delay" /\ trace[k - 2].op = "aspirate"
                    /\ k < Len(trace) =>
                          trace[k + 1].op = "delay" /\ trace[k + 1].n = 2
              /\ IsIncubation(r) =>
                    Count(SubSeq(trace, 1, k),
                          LAMBDA q : q.step = 4 /\ q.op = "dispense") = Len(cells_all)
        /\ Count(trace, IsIncubation) <= 1

\* C13: in the lysis step every column gets a 2 s delay between its aspirate
\* and its dispense and a 2 s delay after its dispense; one 3-minute delay is
\* issued after the lysis dispense to the last column, and no call of the
\* reagent-add step is issued before that delay, in either script.
C13_LysisDelaysAndIncubation ==
    /\ LysisDelaysLowLevel
    /\ \A k \in 1..Len(trace) :
          trace[k].step = 5 =>
              \E j \in 1..k - 1 : IsIncubation(trace[j])

\* cells_all has been assigned.
ColumnsSelected == cells_all # <<>>

\* C14: selecting k sample columns yields exactly the first k wells of the
\* plate's first row, in increasing column order, when k is at most the row
\* length; when k is greater the selection fails before any call is issued,
\* and it never yields fewer than k wells.
C14_SampleColumns ==
    /\ ColumnsSelected =>
          /\ Len(cells_all) = TOTAL_COL
          /\ \A j \in 1..TOTAL_COL : cells_all[j] = Well(j)
    /\ TOTAL_COL > RowLen =>
          /\ ~ColumnsSelected
          /\ trace = <<>>
          /\ pc \notin {"run", "build", "aliases"} => pc = "failed"

\* _build_deck has returned its dict.
DeckBuilt == deck # NoDeck

\* lookup(role): the labware the dict holds for the role.
lookup(role) == deck[role]

AssignsDone == \E s \in DeckSlots : slots[s] # "free"

\* C16: after the deck build every one of the slots 8, 11, 1, 4, 6, 3, 9
\* holds a labware instance and no labware instance is in two slots.
C16_SlotsBoundOnce ==
    AssignsDone =>
        /\ \A s \in DeckSlots : slots[s] # "free"
        /\ \A s, t \in DeckSlots : s # t => slots[s] # slots[t]

\* No statement after the build changes a slot binding or the dict of roles.
SlotsImmutable == [][pc # "build" => (slots' = slots /\ deck' = deck)]_vars

\* Index of the last call before call k that is not a delay, 0 if none.
RECURSIVE PrevCall(_)
PrevCall(k) ==
    IF k <= 1 THEN 0
    ELSE IF trace[k - 1].op = "delay" THEN PrevCall(k - 1)
    ELSE k - 1

\* C17: in ot2plr.py every call respects the transfer state machine.  A tip
\* has been picked up, and nothing is in it, when an aspirate is issued; an
\* air gap follows an aspirate; a dispense follows an aspirate or its air
\* gap; a mix follows a dispense, directly, in the well just dispensed to; a
\* tip is dropped only after a dispense or the mix that followed it, and the
\* next tip picked up only after the drop.  In the reagent-add step every
\* dispense is directly followed by a mix of 75 uL, 3 repetitions, in the
\* same well.
C17_TransferStateMachine ==
    variant = "low" =>
        \A k \in 1..Len(trace) :
            LET r == trace[k]
                p == PrevCall(k)
                before == IF p = 0 THEN "none" ELSE trace[p].op
            IN  /\ r.op = "pick_up_tips" => before \in {"setup", "drop_tips"}
                /\ r.op = "aspirate" =>
                      /\ before \in {"pick_up_tips", "dispense"}
                      /\ r.step = trace[p].step
                /\ r.op = "air_gap" => before = "aspirate"
                /\ r.op = "dispense" => before \in {"aspirate", "air_gap"}
                /\ r.op = "mix" =>
                      /\ trace[k - 1].op = "dispense"
                      /\ r.loc = trace[k - 1].loc
                /\ r.op = "drop_tips" => before \in {"dispense", "mix"}
                /\ (r.step = 5 /\ r.op = "dispense") =>
                      /\ r.loc = Well(r.col)
                      /\ k < Len(trace) =>
                            /\ trace[k + 1].op = "mix"
                            /\ trace[k + 1].loc = r.loc
                            /\ trace[k + 1].vol = 75
                            /\ trace[k + 1].n = 3

C17_Witness ==
    /\ variant = "low"
    /\ pc = "done"
    /\ Len(cells_all) = 12
    /\ Count(trace, LAMBDA r : r.op = "mix" /\ r.ok) = 12
    /\ Count(trace, LAMBDA r : r.op = "air_gap" /\ r.ok) = 12

\* The pipette after the first k calls: whether it holds a tip, and how much
\* (liquid and air) is in the tip.  A mix draws and returns its volume in
\* place.
RECURSIVE TipAfter(_)
TipAfter(k) ==
    IF k = 0 THEN [held |-> FALSE, vol |-> 0]
    ELSE LET r == trace[k] IN
         IF IsPickUp(r) THEN [held |-> TRUE, vol |-> 0]
         ELSE IF IsDrop(r) THEN [held |-> FALSE, vol |-> 0]
         ELSE LET q == TipAfter(k - 1) IN
              IF r.op \in {"aspirate", "air_gap"}
              THEN [q EXCEPT !.vol = q.vol + r.vol]
              ELSE IF r.op = "dispense"
              THEN [q EXCEPT !.vol = q.vol - r.vol]
              ELSE q

\* C20: in ot2plr.py the call just issued finds the pipette in the state it
\* needs: pick_up_tips with no tip held; aspirate, air_gap, dispense and mix
\* with a tip held, a dispense not exceeding what is in the tip; drop_tips
\* with a tip held that contains nothing (all that was aspirated, air gap
\* included, has been dispensed); finish() with no tip held.  A run that
\* returned has issued as many drops as pick-ups.  The trace only grows, so
\* this covers every call of every run.
C20_TipHeldDiscipline ==
    variant = "low" =>
        /\ trace # <<>> =>
              LET r == Last(trace)
                  q == TipAfter(Len(trace) - 1)
              IN  /\ IsPickUp(r) => ~q.held
                  /\ r.op \in {"aspirate", "air_gap", "dispense", "mix"} => q.held
                  /\ r.op = "dispense" => r.vol <= q.vol
                  /\ IsDrop(r) => q.held /\ q.vol = 0
                  /\ r.op = "finish" => ~q.held
        /\ pc = "done" =>
              /\ Count(trace, IsPickUp) = Count(trace, IsDrop)
              /\ ~TipAfter(Len(trace)).held
        /\ [j \in 1..Len(trace) |-> trace[j].op] \in Seq(
              {"setup", "pick_up_tips", "aspirate", "air_gap", "dispense",
               "mix", "delay", "drop_tips", "finish"})

C20_Witness ==
    /\ variant = "low"
    /\ pc = "done"
    /\ Len(cells_all) = 12
    /\ Count(trace, IsPickUp) = TipsNeeded(12)
    /\ Count(trace, IsDrop) = TipsNeeded(12)

\* The first k wells of the plate's first row.
FirstCols(k) == [j \in 1..k |-> Well(j)]

\* The columns a helper call is to process: the sources of a remove_liquid,
\* the targets of an add_liquid.
Processed(r) ==
    IF r.op = "add_liquid" /\ r.kw # "targets" THEN <<>> ELSE r.locs

\* C18: for a column count k from 1 to 12, each step processes exactly the
\* first k sample columns with one volume per processed column: in ot2plr.py
\* a finished step has issued one aspirate and one dispense for each of the
\* columns 1..k and for no other; in the helper script each call is handed
\* the first k wells and as many volumes as it has columns to process.
C18_OneVolumePerColumn ==
    TOTAL_COL <= RowLen =>
        /\ variant = "low" =>
              \A s \in 1..5 :
                  StepOver(s) =>
                      /\ InColumnOrder(PlateCols(s), TOTAL_COL)
                      /\ \A c \in 1..RowLen :
                            \A o \in {"aspirate", "dispense"} :
                                Count(StepOps(s), LAMBDA r : r.op = o /\ r.col = c)
                                    = IF c <= TOTAL_COL THEN 1 ELSE 0
        /\ variant = "high" =>
              \A k \in 1..Len(trace) :
                  trace[k].op \in {"remove_liquid", "add_liquid"} =>
                      /\ Processed(trace[k]) = FirstCols(TOTAL_COL)
                      /\ trace[k].n = Len(Processed(trace[k]))

\* The calls of ot2plr.py for step s, and the helper call of the other
\* script for step s.
LowOps(s) ==
    SelectSeq(trace, LAMBDA r : r.step = s
                                /\ r.op \notin {"remove_liquid", "add_liquid"})
HelperOps(s) ==
    SelectSeq(trace, LAMBDA r : r.step = s
                                /\ r.op \in {"remove_liquid", "add_liquid"})

\* What ot2plr.py does in step s: the sample wells it transfers from or to,
\* in order; the reagent channel it aspirates from; the volume it aspirates;
\* the air gap; the delays (those of the first column, then those of the
\* whole plate).
LowWells(s) ==
    LET ops == SelectSeq(LowOps(s), LAMBDA r : r.op \in {"aspirate", "dispense"}
                                               /\ r.loc[1] = "working_plate")
    IN  [j \in 1..Len(ops) |-> ops[j].loc]
LowSources(s) ==
    {LowOps(s)[j].loc : j \in {j \in 1..Len(LowOps(s)) :
        LowOps(s)[j].op = "aspirate" /\ LowOps(s)[j].loc[1] = "reagent_res"}}
LowVols(s) ==
    {LowOps(s)[j].vol : j \in {j \in 1..Len(LowOps(s)) : LowOps(s)[j].op = "aspirate"}}
LowAirGaps(s) ==
    {LowOps(s)[j].vol : j \in {j \in 1..Len(LowOps(s)) : LowOps(s)[j].op = "air_gap"}}
LowDelays(s) ==
    LET ops == SelectSeq(LowOps(s), LAMBDA r : r.op = "delay" /\ r.col \in {0, 1})
    IN  [j \in 1..Len(ops) |-> ops[j].n]

\* Both runs have returned.
PairDone == variant = "high" /\ pc = "done"

\* C19: run one after the other with the same configuration, the two scripts
\* apply the same five steps to the same sample columns, each step with the
\* same reagent source, the same per-column volume, the same air gap and the
\* same delays.
C19_VariantsAgree ==
    PairDone =>
        \A s \in 1..5 :
            /\ Len(HelperOps(s)) = 1
            /\ LET h == HelperOps(s)[1] IN
               /\ Processed(h) = LowWells(s)
               /\ LowSources(s) = (IF h.op = "add_liquid" THEN {h.loc} ELSE {})
               /\ LowVols(s) = {h.vol}
               /\ LowAirGaps(s) = (IF h.air = 0 THEN {} ELSE {h.air})
               /\ LowDelays(s) = h.delays

\* Where the two scripts do agree: the order of the steps and the reagent of
\* each adding step; the air gap; the columns of steps 1, 2, 3 and 5; the
\* volumes of steps 2 to 5; the wash removal altogether.
PairAgreement ==
    PairDone =>
        \A s \in 1..5 :
            /\ Len(HelperOps(s)) = 1
            /\ LET h == HelperOps(s)[1] IN
               /\ s # 4 => Processed(h) = LowWells(s)
               /\ LowSources(s) = (IF h.op = "add_liquid" THEN {h.loc} ELSE {})
               /\ s # 1 => LowVols(s) = {h.vol}
               /\ LowAirGaps(s) = (IF h.air = 0 THEN {} ELSE {h.air})
               /\ s = 3 => LowDelays(s) = h.delays

===========================================================================
